---------------------------- MODULE Spec2Model ----------------------------
(***************************************************************************)
(* Model of the action-selection engine of                                 *)
(* .github/scripts/opencog_action_selector.py (the health metrics          *)
(* aggregator, the action catalog, the target filter, the utility          *)
(* prioritizer and main) and of execute_actions of                         *)
(* .github/scripts/opencog_executor.py.                                    *)
(*                                                                         *)
(* Representation.                                                         *)
(*  - A Python str is a sequence of one-character strings, so that         *)
(*    str.split(',') and str.strip() are computed character by character;  *)
(*    None is a value that is no such sequence.                            *)
(*  - A Python dict is a function on its keys; dict.get(k, d) is Get.      *)
(*  - A float priority p is the integer 10*p (tenths); a float utility u   *)
(*    is the integer 10000*u.  Every product the code forms from the       *)
(*    priorities and boosts of this model is exact at that scale, and the  *)
(*    IEEE doubles Python computes for them are ordered as the exact       *)
(*    values are.                                                          *)
(*  - An instant is an integer number of ticks, TicksPerDay ticks a day;   *)
(*    timedelta.days is the floor of the elapsed ticks over TicksPerDay.   *)
(*  - A timestamp str is either the ISO-8601 text of an instant or a text  *)
(*    datetime.fromisoformat raises ValueError on.                         *)
(***************************************************************************)
EXTENDS Integers, Sequences, FiniteSets, TLC

VARIABLES
    pc,           \* position of the run: "start", then the steps taken
    context,      \* the context dict handed to select_actions
    action_type,  \* the --action-type argument
    target_repos, \* the --target-repos argument (a str)
    clock,        \* datetime.utcnow() at the start of the call
    reads,        \* the clock readings _select_analysis_actions took, one per repository
    candidates,   \* select_actions' local `actions` before the target filter
    filtered,     \* select_actions' local `actions` after the target filter, as it
                  \* is when _prioritize_actions is called (the call then adds
                  \* calculated_utility to these dicts in place)
    prioritized,  \* the list _prioritize_actions returned
    reprioritized, \* the list _prioritize_actions returns when given `prioritized`
    api,          \* how the GitHub API answers get_organization_context
    repos_data,   \* the repository list the API returns / the aggregator is given
    metrics_result, \* what _calculate_health_metrics returned, or that it raised
    actions_data, \* the dict execute_actions is given
    execution_summary, \* the dict execute_actions returns
    action_result, \* the dict one handler of the executor returned
    exit_status,  \* the status the executor's main ends with
    report,       \* the executive summary the reporter generated
    thresholds,   \* the checker's self.thresholds, in the order of its items()
    checked_results, \* the JSON document check_thresholds loads
    threshold_result \* the dict check_thresholds returns

\* the variables of the selector's own call
selector_vars == <<context, action_type, target_repos, clock, reads,
                   candidates, filtered, prioritized, reprioritized>>

\* the variables of the steps around it
pipeline_vars == <<api, repos_data, metrics_result, actions_data, execution_summary>>

\* the variables of the steps after the executor's loop
downstream_vars == <<action_result, exit_status, report, thresholds, checked_results,
                     threshold_result>>

vars == <<pc, context, action_type, target_repos, clock, reads,
          candidates, filtered, prioritized, reprioritized,
          api, repos_data, metrics_result, actions_data, execution_summary,
          action_result, exit_status, report, thresholds, checked_results,
          threshold_result>>

---------------------------------------------------------------------------
(* Bounds of the model *)

MaxRepos == 3

MaxActions == 3

MaxTargets == 2

MaxDrift == 1

TicksPerDay == 2

---------------------------------------------------------------------------
(* Python str and dict *)

ALL == <<"a", "l", "l">>

EmptyDict == <<>>

\* Python's None, and JSON's null: a value that is no str
None == <<"None">>

\* a str of n characters
Text(n) == [i \in 1..n |-> "d"]

\* bool(s) of a str or None
Truthy(s) == s # None /\ s # <<>>

\* an ISO-8601 'Z' timestamp str of the instant t, and a str that is none
IsoZ(t) == [iso |-> t]

NotATimestamp == [text |-> "not-a-timestamp"]

Parseable(ts) == "iso" \in DOMAIN ts

\* datetime.fromisoformat(ts.replace('Z', '+00:00')).replace(tzinfo=None), for a
\* str it does not raise ValueError on
fromisoformat(ts) == ts.iso

Get(d, k, default) == IF k \in DOMAIN d THEN d[k] ELSE default

HasKey(d, k) == k \in DOMAIN d

SetItem(d, k, v) == (k :> v) @@ d

RECURSIVE SplitFrom(_, _, _)
SplitFrom(s, i, cur) ==
    IF i > Len(s) THEN <<cur>>
    ELSE IF s[i] = "," THEN <<cur>> \o SplitFrom(s, i + 1, <<>>)
    ELSE SplitFrom(s, i + 1, Append(cur, s[i]))

\* s.split(',')
split(s) == SplitFrom(s, 1, <<>>)

RECURSIVE lstrip(_)
lstrip(s) == IF s # <<>> /\ Head(s) = " " THEN lstrip(Tail(s)) ELSE s

RECURSIVE rstrip(_)
rstrip(s) ==
    IF s # <<>> /\ s[Len(s)] = " " THEN rstrip(SubSeq(s, 1, Len(s) - 1)) ELSE s

\* blanks removed in front only
strip_leading_only(s) == lstrip(s)

\* s.strip()
strip(s) == rstrip(lstrip(s))

Range(seq) == {seq[i] : i \in 1..Len(seq)}

---------------------------------------------------------------------------
(* Program constants *)

StaleDays == 30

\* _calculate_health_metrics: days_since_update <= 30 is active, > 90 is outdated
ActiveDays == 30

OutdatedDays == 90

\* _calculate_health_metrics: a description shorter than this needs documentation
MinDescription == 10

OutdatedBoostThreshold == 3

DefaultPriority == 5

SecurityBoost == 13

MaintenanceBoost == 12

UnderstandingBoost == 11

---------------------------------------------------------------------------
(* The action catalog *)

NameChars == <<"x", "y", "z", "w", "v", "u">>

\* the name of the i-th repository of the organization (names are unique)
RepoName(i) == <<NameChars[i]>>

\* (now - updated_at).days
days_since(now, updated_at) == (now - updated_at) \div TicksPerDay

analyze_organization ==
    [type |-> "analyze_organization", priority |-> 10, goal |-> "understanding",
     target_repo |-> ALL,
     parameters |-> [include_metrics |-> TRUE, include_trends |-> TRUE]]

analyze_repository(name, days_since_update) ==
    [type |-> "analyze_repository", priority |-> 8, goal |-> "maintenance",
     target_repo |-> name,
     parameters |-> [repo_name |-> name, days_since_update |-> days_since_update,
                     check_issues |-> TRUE, check_security |-> TRUE]]

sync_organization_profile ==
    [type |-> "sync_organization_profile", priority |-> 10, goal |-> "consistency",
     target_repo |-> ALL,
     parameters |-> [update_statistics |-> TRUE, refresh_repo_list |-> TRUE]]

check_documentation_health(missing_docs_count) ==
    [type |-> "check_documentation_health", priority |-> 9, goal |-> "quality",
     target_repo |-> ALL,
     parameters |-> [missing_docs_count |-> missing_docs_count]]

check_activity_health(outdated_count) ==
    [type |-> "check_activity_health", priority |-> 7, goal |-> "maintenance",
     target_repo |-> ALL,
     parameters |-> [outdated_count |-> outdated_count]]

security_scan_organization ==
    [type |-> "security_scan_organization", priority |-> 10, goal |-> "security",
     target_repo |-> ALL,
     parameters |-> [scan_vulnerabilities |-> TRUE, check_permissions |-> TRUE,
                     audit_access |-> TRUE]]

\* the loop with the test days_since_update >= 30
RECURSIVE StaleRepoActions_from_threshold(_, _, _)
StaleRepoActions_from_threshold(repos, rd, i) ==
    IF i > Len(repos) THEN <<>>
    ELSE LET days_since_update == days_since(rd[i], fromisoformat(repos[i].updated_at))
         IN  (IF days_since_update >= StaleDays
                 THEN <<analyze_repository(repos[i].name, days_since_update)>>
                 ELSE <<>>)
             \o StaleRepoActions_from_threshold(repos, rd, i + 1)

\* the loop of _select_analysis_actions over repos[i..]; rd[i] is the value of
\* datetime.utcnow() read for repos[i]
RECURSIVE StaleRepoActions(_, _, _)
StaleRepoActions(repos, rd, i) ==
    IF i > Len(repos) THEN <<>>
    ELSE LET days_since_update == days_since(rd[i], fromisoformat(repos[i].updated_at))
         IN  (IF days_since_update > StaleDays
                 THEN <<analyze_repository(repos[i].name, days_since_update)>>
                 ELSE <<>>)
             \o StaleRepoActions(repos, rd, i + 1)

select_analysis_actions(repos, metrics, rd) ==
    <<analyze_organization>> \o StaleRepoActions(repos, rd, 1)

\* one sync action per repository
select_sync_actions_per_repo(repos, metrics) ==
    [i \in 1..Len(repos) |-> sync_organization_profile]

select_sync_actions(repos, metrics) == <<sync_organization_profile>>

\* both tests passing at a count of 0
select_health_actions_from_zero(repos, metrics) ==
    (IF Get(metrics, "needs_documentation", 0) >= 0
        THEN <<check_documentation_health(Get(metrics, "needs_documentation", 0))>>
        ELSE <<>>)
    \o
    (IF Get(metrics, "outdated_repos", 0) >= 0
        THEN <<check_activity_health(Get(metrics, "outdated_repos", 0))>>
        ELSE <<>>)

select_health_actions(repos, metrics) ==
    (IF Get(metrics, "needs_documentation", 0) > 0
        THEN <<check_documentation_health(metrics["needs_documentation"])>>
        ELSE <<>>)
    \o
    (IF Get(metrics, "outdated_repos", 0) > 0
        THEN <<check_activity_health(metrics["outdated_repos"])>>
        ELSE <<>>)

select_security_actions(repos, metrics) == <<security_scan_organization>>

\* the security selector's actions appended as a fourth part
select_comprehensive_actions_with_security(repos, metrics, rd) ==
    select_analysis_actions(repos, metrics, rd)
    \o select_sync_actions(repos, metrics)
    \o select_health_actions(repos, metrics)
    \o select_security_actions(repos, metrics)

select_comprehensive_actions(repos, metrics, rd) ==
    select_analysis_actions(repos, metrics, rd)
    \o select_sync_actions(repos, metrics)
    \o select_health_actions(repos, metrics)

\* the if/elif chain of select_actions on action_type
ReadsClock(atype) == atype \notin {"sync", "health_check", "security_scan"}

catalog(atype, repos, metrics, rd) ==
    IF atype = "analyze" THEN select_analysis_actions(repos, metrics, rd)
    ELSE IF atype = "sync" THEN select_sync_actions(repos, metrics)
    ELSE IF atype = "health_check" THEN select_health_actions(repos, metrics)
    ELSE IF atype = "security_scan" THEN select_security_actions(repos, metrics)
    ELSE select_comprehensive_actions(repos, metrics, rd)

---------------------------------------------------------------------------
(* The health metrics aggregator, _calculate_health_metrics *)

\* the dict the aggregator starts its loop with
initial_metrics(repos) ==
    [total_repos |-> Len(repos), active_repos |-> 0, outdated_repos |-> 0,
     security_alerts |-> 0, needs_documentation |-> 0, languages |-> EmptyDict,
     last_activity_stats |-> EmptyDict]

\* the active test taken as days_since_update < 30
classify_active_below(metrics, days_since_update) ==
    IF days_since_update < ActiveDays
        THEN SetItem(metrics, "active_repos", metrics["active_repos"] + 1)
    ELSE IF days_since_update > OutdatedDays
        THEN SetItem(metrics, "outdated_repos", metrics["outdated_repos"] + 1)
    ELSE metrics

\* two independent tests, the second one days_since_update > 30
classify_independent(metrics, days_since_update) ==
    LET m == IF days_since_update <= ActiveDays
                 THEN SetItem(metrics, "active_repos", metrics["active_repos"] + 1)
                 ELSE metrics
    IN  IF days_since_update > ActiveDays
            THEN SetItem(m, "outdated_repos", m["outdated_repos"] + 1)
            ELSE m

\* the if/elif on days_since_update
classify(metrics, days_since_update) ==
    IF days_since_update <= ActiveDays
        THEN SetItem(metrics, "active_repos", metrics["active_repos"] + 1)
    ELSE IF days_since_update > OutdatedDays
        THEN SetItem(metrics, "outdated_repos", metrics["outdated_repos"] + 1)
    ELSE metrics

\* every repository counted, under the key None when it has no language
track_language_always(metrics, repo) ==
    LET lang == Get(repo, "language", None)
        languages == metrics["languages"]
    IN  SetItem(metrics, "languages",
                SetItem(languages, lang, Get(languages, lang, 0) + 1))

\* the language tracking of the loop
track_language(metrics, repo) ==
    IF Truthy(Get(repo, "language", None))
        THEN LET lang == repo["language"]
                 languages == metrics["languages"]
             IN  SetItem(metrics, "languages",
                         SetItem(languages, lang, Get(languages, lang, 0) + 1))
        ELSE metrics

\* not repo.get('description') or len(repo.get('description', '')) < 10
lacks_description(repo) ==
    \/ ~Truthy(Get(repo, "description", None))
    \/ Len(Get(repo, "description", <<>>)) < MinDescription

check_description(metrics, repo) ==
    IF lacks_description(repo)
        THEN SetItem(metrics, "needs_documentation", metrics["needs_documentation"] + 1)
        ELSE metrics

\* the loop over repos[i..], with `now` read once before it
RECURSIVE metrics_loop(_, _, _, _)
metrics_loop(repos, now, i, metrics) ==
    IF i > Len(repos) THEN metrics
    ELSE LET repo == repos[i]
             updated_at == fromisoformat(repo["updated_at"])
             days_since_update == days_since(now, updated_at)
         IN  metrics_loop(repos, now, i + 1,
                 check_description(
                     track_language(classify(metrics, days_since_update), repo),
                     repo))

\* fromisoformat raises ValueError in the loop
metrics_raises(repos) == \E i \in 1..Len(repos) : ~Parseable(repos[i]["updated_at"])

\* the loop entered without the test for an empty list
calculate_health_metrics_unguarded(repos, now) ==
    metrics_loop(repos, now, 1, initial_metrics(repos))

\* the value _calculate_health_metrics returns when it does not raise
calculate_health_metrics(repos, now) ==
    IF repos = <<>> THEN EmptyDict
    ELSE metrics_loop(repos, now, 1, initial_metrics(repos))

---------------------------------------------------------------------------
(* The target filter of select_actions *)

target_list(targets) == [i \in 1..Len(split(targets)) |-> strip(split(targets)[i])]

\* the membership test alone, without the clause for organization-wide actions
retained_listed_only(action, targets) ==
    Get(action, "target_repo", ALL) \in Range(target_list(targets))

\* the membership test negated
retained_unless_listed(action, targets) ==
    \/ Get(action, "target_repo", ALL) \notin Range(target_list(targets))
    \/ (HasKey(action, "target_repo") /\ action["target_repo"] = ALL)

retained(action, targets) ==
    \/ Get(action, "target_repo", ALL) \in Range(target_list(targets))
    \/ (HasKey(action, "target_repo") /\ action["target_repo"] = ALL)

\* the filter applied without the test for the literal "all"
filter_actions_always(actions, targets) ==
    SelectSeq(actions, LAMBDA action : retained(action, targets))

\* the organization-wide actions collected first, the listed repositories' after
filter_actions_scoped_last(actions, targets) ==
    IF targets # ALL
        THEN SelectSeq(actions, LAMBDA action : Get(action, "target_repo", ALL) = ALL)
             \o SelectSeq(actions, LAMBDA action :
                     /\ Get(action, "target_repo", ALL) # ALL
                     /\ retained(action, targets))
        ELSE actions

filter_actions(actions, targets) ==
    IF targets # ALL
        THEN SelectSeq(actions, LAMBDA action : retained(action, targets))
        ELSE actions

---------------------------------------------------------------------------
(* The utility prioritizer *)

\* utility *= boost, for a boost given in tenths
Times(utility, boost) == (utility * boost) \div 10

\* the maintenance boost granted from an outdated count of 3 on
calculated_utility_boost_from_threshold(action, ctx) ==
    LET u0 == Get(action, "priority", DefaultPriority) * 1000
        u1 == IF Get(action, "goal", "") = "security"
                 THEN Times(u0, SecurityBoost) ELSE u0
        health_metrics == Get(ctx, "health_metrics", EmptyDict)
        u2 == IF Get(action, "goal", "") = "maintenance"
                    /\ Get(health_metrics, "outdated_repos", 0) >= OutdatedBoostThreshold
                 THEN Times(u1, MaintenanceBoost) ELSE u1
        u3 == IF Get(action, "goal", "") = "understanding"
                 THEN Times(u2, UnderstandingBoost) ELSE u2
    IN  u3

\* the utility computed from the utility stored by an earlier run
calculated_utility_compounding(action, ctx) ==
    LET u0 == Get(action, "calculated_utility",
                  Get(action, "priority", DefaultPriority) * 1000)
        u1 == IF Get(action, "goal", "") = "security"
                 THEN Times(u0, SecurityBoost) ELSE u0
        health_metrics == Get(ctx, "health_metrics", EmptyDict)
        u2 == IF Get(action, "goal", "") = "maintenance"
                    /\ Get(health_metrics, "outdated_repos", 0) > OutdatedBoostThreshold
                 THEN Times(u1, MaintenanceBoost) ELSE u1
        u3 == IF Get(action, "goal", "") = "understanding"
                 THEN Times(u2, UnderstandingBoost) ELSE u2
    IN  u3

calculated_utility(action, ctx) ==
    LET u0 == Get(action, "priority", DefaultPriority) * 1000
        u1 == IF Get(action, "goal", "") = "security"
                 THEN Times(u0, SecurityBoost) ELSE u0
        health_metrics == Get(ctx, "health_metrics", EmptyDict)
        u2 == IF Get(action, "goal", "") = "maintenance"
                    /\ Get(health_metrics, "outdated_repos", 0) > OutdatedBoostThreshold
                 THEN Times(u1, MaintenanceBoost) ELSE u1
        u3 == IF Get(action, "goal", "") = "understanding"
                 THEN Times(u2, UnderstandingBoost) ELSE u2
    IN  u3

\* the maintenance boost decided by the number of maintenance actions in the list
\* being prioritized instead of the outdated count of the metrics
annotate_counting_list(actions, ctx) ==
    LET maintenance == Cardinality({i \in 1..Len(actions) :
                                       Get(actions[i], "goal", "") = "maintenance"})
        counted == SetItem(ctx, "health_metrics", [outdated_repos |-> maintenance])
    IN  [i \in 1..Len(actions) |->
            SetItem(actions[i], "calculated_utility",
                    calculated_utility(actions[i], counted))]

\* the utility written over the base priority
annotate_over_priority(actions, ctx) ==
    [i \in 1..Len(actions) |->
        SetItem(SetItem(actions[i], "calculated_utility",
                        calculated_utility(actions[i], ctx)),
                "priority", calculated_utility(actions[i], ctx) \div 1000)]

\* the for loop of _prioritize_actions: action['calculated_utility'] = utility
annotate(actions, ctx) ==
    [i \in 1..Len(actions) |->
        SetItem(actions[i], "calculated_utility", calculated_utility(actions[i], ctx))]

SortKey(action) == Get(action, "calculated_utility", 0)

\* one element placed into a list already sorted by descending key, after every
\* element whose key is not smaller: what a stable descending sort does
RECURSIVE InsertDesc(_, _)
InsertDesc(sorted_seq, a) ==
    IF sorted_seq = <<>> THEN <<a>>
    ELSE IF SortKey(Head(sorted_seq)) >= SortKey(a)
            THEN <<Head(sorted_seq)>> \o InsertDesc(Tail(sorted_seq), a)
            ELSE <<a>> \o sorted_seq

Reverse(seq) == [i \in 1..Len(seq) |-> seq[Len(seq) + 1 - i]]

\* an ascending stable sort read backwards: sorted(actions, key=...)[::-1]
RECURSIVE InsertAsc(_, _)
InsertAsc(sorted_seq, a) ==
    IF sorted_seq = <<>> THEN <<a>>
    ELSE IF SortKey(Head(sorted_seq)) <= SortKey(a)
            THEN <<Head(sorted_seq)>> \o InsertAsc(Tail(sorted_seq), a)
            ELSE <<a>> \o sorted_seq

RECURSIVE sorted_asc(_)
sorted_asc(actions) ==
    IF actions = <<>> THEN <<>>
    ELSE InsertAsc(sorted_asc(SubSeq(actions, 1, Len(actions) - 1)),
                   actions[Len(actions)])

sorted_then_reversed(actions) == Reverse(sorted_asc(actions))

\* the sort without reverse=True
sorted_ascending(actions) == sorted_asc(actions)

\* sorted(actions, key=lambda x: x.get('calculated_utility', 0), reverse=True)
RECURSIVE sorted_desc(_)
sorted_desc(actions) ==
    IF actions = <<>> THEN <<>>
    ELSE InsertDesc(sorted_desc(SubSeq(actions, 1, Len(actions) - 1)),
                    actions[Len(actions)])

prioritize_actions(actions, ctx) == sorted_desc(annotate(actions, ctx))

---------------------------------------------------------------------------
(* Inputs *)

\* all sequences over S of length at most n
RECURSIVE SeqsUpTo(_, _)
SeqsUpTo(S, n) ==
    IF n = 0 THEN {<<>>}
    ELSE LET shorter == SeqsUpTo(S, n - 1)
         IN  shorter \cup {Append(q, x) : q \in shorter, x \in S}

\* the actions the catalog can create for an organization of two repositories
ActionUniverse ==
    { analyze_organization, sync_organization_profile, security_scan_organization,
      check_documentation_health(1), check_activity_health(1),
      analyze_repository(RepoName(1), 31), analyze_repository(RepoName(2), 31) }

\* candidates that differ in scope: two organization-wide, two of one repository
FilterUniverse ==
    { analyze_organization, sync_organization_profile,
      analyze_repository(RepoName(1), 31), analyze_repository(RepoName(2), 31) }

\* health_metrics values: the empty dict of an empty organization, and
\* outdated counts on both sides of the boost threshold
MetricsSamples ==
    {EmptyDict} \cup
    { [total_repos |-> 6, active_repos |-> 0, outdated_repos |-> n,
       needs_documentation |-> 0] : n \in {0, 3, 4, 5} }

\* one name of a --target-repos list as typed: optional blanks around it
TargetTokens ==
    { pad \o name \o pad : pad \in {<<>>, <<" ">>}, name \in {RepoName(1), RepoName(2), ALL} }

RECURSIVE Join(_)
Join(tokens) ==
    IF Len(tokens) = 1 THEN tokens[1]
    ELSE tokens[1] \o <<",">> \o Join(Tail(tokens))

\* --target-repos values: the empty string and comma-separated lists of names
TargetSpecs ==
    {<<>>} \cup {Join(tokens) : tokens \in SeqsUpTo(TargetTokens, MaxTargets) \ {<<>>}}

\* last-updated instants, as ages in ticks before the clock's first value 0:
\* 5, 30, 30 and a fraction (31 once the clock has moved on), 45 and 120 days
AgeSamples ==
    { 5 * TicksPerDay, StaleDays * TicksPerDay, (StaleDays + 1) * TicksPerDay - 1,
      45 * TicksPerDay, 120 * TicksPerDay }

\* repository lists: the i-th repository is named RepoName(i)
RepoLists ==
    { [i \in 1..Len(ages) |-> [name |-> RepoName(i), updated_at |-> IsoZ(0 - ages[i])]] :
        ages \in SeqsUpTo(AgeSamples, MaxRepos) }

\* a repository list with a timestamp that is no ISO-8601 str
MalformedRepoList == <<[name |-> RepoName(1), updated_at |-> NotATimestamp]>>

\* health_metrics of a context: empty, or with the counters the catalog and the
\* prioritizer read on both sides of their thresholds
ContextMetrics ==
    {EmptyDict} \cup
    { [total_repos |-> 6, active_repos |-> 0, outdated_repos |-> n,
       needs_documentation |-> d] : n \in {0, 1, 4}, d \in {0, 2} }

ActionTypes == {"analyze", "sync", "health_check", "security_scan", "comprehensive"}

\* the values utcnow() can return on n successive reads starting at instant t
ClockReads(t, n) ==
    { rd \in [1..n -> t..(t + MaxDrift)] : \A i \in 1..(n - 1) : rd[i] <= rd[i + 1] }

---------------------------------------------------------------------------
(* select_actions, called once on a context *)

\* no step after the executor's loop has run
DownstreamIdle ==
    /\ action_result = EmptyDict
    /\ exit_status = 0
    /\ report = EmptyDict
    /\ thresholds = <<>>
    /\ checked_results = EmptyDict
    /\ threshold_result = EmptyDict

\* no step around the selector's call has run
PipelineIdle ==
    /\ api = "none"
    /\ repos_data = <<>>
    /\ metrics_result = EmptyDict
    /\ actions_data = EmptyDict
    /\ execution_summary = EmptyDict
    /\ DownstreamIdle

Init ==
    /\ pc = "start"
    /\ \E repos \in RepoLists \cup {MalformedRepoList}, m \in ContextMetrics :
          context = [repositories |-> repos, health_metrics |-> m]
    /\ action_type \in ActionTypes
    /\ target_repos \in {ALL, RepoName(1), RepoName(2) \o <<",", " ">> \o RepoName(3)}
    /\ clock = 0
    /\ reads = <<>>
    /\ candidates = <<>>
    /\ filtered = <<>>
    /\ prioritized = <<>>
    /\ reprioritized = <<>>
    /\ PipelineIdle

\* the context with the defaults select_actions reads stored into it
context_after_select_setdefault(ctx) ==
    LET c == IF HasKey(ctx, "repositories") THEN ctx
             ELSE SetItem(ctx, "repositories", <<>>)
    IN  IF HasKey(c, "health_metrics") THEN c
        ELSE SetItem(c, "health_metrics", EmptyDict)

\* the context as a call of select_actions leaves it: the call reads it with
\* dict.get, which stores no default, and _prioritize_actions writes
\* calculated_utility into the dicts the catalog built, none of them in the context
context_after_select(ctx) == ctx

\* fromisoformat raises ValueError in the loop of _select_analysis_actions
select_raises(atype, repos) ==
    /\ ReadsClock(atype)
    /\ \E i \in 1..Len(repos) : ~Parseable(repos[i]["updated_at"])

SelectActions ==
    /\ pc = "start"
    /\ LET repos == Get(context, "repositories", <<>>)
           health_metrics == Get(context, "health_metrics", EmptyDict)
       IN  IF select_raises(action_type, repos)
           THEN /\ pc' = "raised"
                /\ UNCHANGED <<context, clock, reads, candidates, filtered, prioritized>>
           ELSE /\ pc' = "selected"
                /\ \E rd \in (IF ReadsClock(action_type)
                                  THEN ClockReads(clock, Len(repos)) ELSE {<<>>}) :
                     LET actions == catalog(action_type, repos, health_metrics, rd)
                         kept == filter_actions(actions, target_repos)
                     IN  /\ reads' = rd
                         /\ clock' = IF rd = <<>> THEN clock ELSE rd[Len(rd)]
                         /\ candidates' = actions
                         /\ filtered' = kept
                         /\ prioritized' = prioritize_actions(kept, context)
                /\ context' = context_after_select(context)
    /\ UNCHANGED <<action_type, target_repos, reprioritized>>
    /\ UNCHANGED pipeline_vars
    /\ UNCHANGED downstream_vars

Next == SelectActions

Spec == Init /\ [][Next]_vars

---------------------------------------------------------------------------
(* The filter and the prioritizer as functions of any candidate list *)

CoreInit(universe, targets, metrics) ==
    /\ pc = "start"
    /\ candidates \in SeqsUpTo(universe, MaxActions)
    /\ target_repos \in targets
    /\ \E m \in metrics : context = [repositories |-> <<>>, health_metrics |-> m]
    /\ action_type = "given"
    /\ clock = 0
    /\ reads = <<>>
    /\ filtered = <<>>
    /\ prioritized = <<>>
    /\ reprioritized = <<>>
    /\ PipelineIdle

ApplyFilter ==
    /\ pc = "start"
    /\ filtered' = filter_actions(candidates, target_repos)
    /\ pc' = "filtered"
    /\ UNCHANGED <<context, action_type, target_repos, clock, reads, candidates,
                   prioritized, reprioritized>>
    /\ UNCHANGED pipeline_vars
    /\ UNCHANGED downstream_vars

Prioritize ==
    /\ pc = "filtered"
    /\ prioritized' = prioritize_actions(filtered, context)
    /\ pc' = "prioritized"
    /\ UNCHANGED <<context, action_type, target_repos, clock, reads, candidates,
                   filtered, reprioritized>>
    /\ UNCHANGED pipeline_vars
    /\ UNCHANGED downstream_vars

Reprioritize ==
    /\ pc = "prioritized"
    /\ reprioritized' = prioritize_actions(prioritized, context)
    /\ pc' = "reprioritized"
    /\ UNCHANGED <<context, action_type, target_repos, clock, reads, candidates,
                   filtered, prioritized>>
    /\ UNCHANGED pipeline_vars
    /\ UNCHANGED downstream_vars

FilterNext == ApplyFilter \/ Prioritize

FilterInit == CoreInit(FilterUniverse, TargetSpecs, {EmptyDict})

SpecFilter == FilterInit /\ [][FilterNext]_vars

CoreNext == ApplyFilter \/ Prioritize \/ Reprioritize

PrioInit == CoreInit(ActionUniverse, {ALL}, MetricsSamples)

SpecPrio == PrioInit /\ [][CoreNext]_vars

---------------------------------------------------------------------------
(* _calculate_health_metrics, called once on a repository list *)

\* ages on both sides of the two thresholds, half a day apart
MetricsAgeSamples ==
    { ActiveDays * TicksPerDay, (ActiveDays + 1) * TicksPerDay - 1,
      (ActiveDays + 1) * TicksPerDay, (OutdatedDays + 1) * TicksPerDay - 1,
      (OutdatedDays + 1) * TicksPerDay }

DescriptionSamples == {None, <<>>, Text(MinDescription), Text(MinDescription + 1)}

LanguageSamples == {None, <<>>, <<"G", "o">>, <<"P", "y">>}

\* what the API returns for one repository, but for its name: one that varies the
\* age, one that varies description and language, one with a malformed timestamp
RepoSamples ==
    { [updated_at |-> IsoZ(0 - age), description |-> Text(MinDescription + 1),
       language |-> <<"G", "o">>] : age \in MetricsAgeSamples }
    \cup
    { [updated_at |-> IsoZ(0 - ActiveDays * TicksPerDay), description |-> d,
       language |-> l] : d \in DescriptionSamples, l \in LanguageSamples }
    \cup
    { [updated_at |-> NotATimestamp, description |-> None, language |-> None] }

\* the lists of at most MaxRepos of the samples, the i-th one named RepoName(i)
NamedRepoLists(samples) ==
    { [i \in 1..Len(rs) |-> SetItem(rs[i], "name", RepoName(i))] :
        rs \in SeqsUpTo(samples, MaxRepos) }

\* select_actions is not being called
SelectorIdle ==
    /\ context = EmptyDict
    /\ action_type = "analyze"
    /\ target_repos = ALL
    /\ reads = <<>>
    /\ candidates = <<>>
    /\ filtered = <<>>
    /\ prioritized = <<>>
    /\ reprioritized = <<>>

MetricsInit ==
    /\ pc = "metrics_start"
    /\ clock = 0
    /\ repos_data \in NamedRepoLists(RepoSamples)
    /\ api = "none"
    /\ metrics_result = EmptyDict
    /\ actions_data = EmptyDict
    /\ execution_summary = EmptyDict
    /\ DownstreamIdle
    /\ SelectorIdle

CalculateHealthMetrics ==
    /\ pc = "metrics_start"
    /\ IF metrics_raises(repos_data)
          THEN /\ pc' = "metrics_raised"
               /\ metrics_result' = metrics_result
          ELSE /\ pc' = "metrics_done"
               /\ metrics_result' = calculate_health_metrics(repos_data, clock)
    /\ UNCHANGED <<api, repos_data, actions_data, execution_summary>>
    /\ UNCHANGED downstream_vars
    /\ UNCHANGED selector_vars

MetricsNext == CalculateHealthMetrics

SpecMetrics == MetricsInit /\ [][MetricsNext]_vars

---------------------------------------------------------------------------
(* main of the selector: get_organization_context, select_actions, json.dump *)

\* the dict get_organization_context returns from its except clause
error_context(message) == [error |-> message, repositories |-> <<>>]

\* answer: "ok" when the API answers 200, "http_error" when it answers another
\* status, "exception" when requests.get raises; returned: the repositories of a
\* 200 answer; now: the clock when the context is built
get_organization_context(answer, returned, now) ==
    IF answer = "exception" THEN error_context("request failed")
    ELSE LET org_data == IF answer = "ok" THEN [login |-> "org"] ELSE EmptyDict
             repos == IF answer = "ok" THEN returned ELSE <<>>
         IN  IF metrics_raises(repos)
                 THEN error_context("Invalid isoformat string")
                 ELSE [organization |-> org_data,
                       repositories |-> repos,
                       total_repos |-> Len(repos),
                       analysis_time |-> now,
                       health_metrics |-> calculate_health_metrics(repos, now)]

\* the dict main writes to opencog_actions.json
output_data(now, ctx, actions, atype, targets) ==
    [timestamp |-> now, context |-> ctx, selected_actions |-> actions,
     action_type |-> atype, target_repos |-> targets, org_name |-> "org"]

\* a fresh documented repository, one a tick short of 31 days old, a stale and an
\* outdated one without description, one with a malformed timestamp
MainRepoSamples ==
    { [updated_at |-> IsoZ(0 - 5 * TicksPerDay), description |-> Text(MinDescription + 1),
       language |-> <<"G", "o">>],
      [updated_at |-> IsoZ(1 - (ActiveDays + 1) * TicksPerDay),
       description |-> Text(MinDescription + 1), language |-> <<"G", "o">>],
      [updated_at |-> IsoZ(0 - 45 * TicksPerDay), description |-> None,
       language |-> None],
      [updated_at |-> IsoZ(0 - 120 * TicksPerDay), description |-> <<>>,
       language |-> <<"P", "y">>],
      [updated_at |-> NotATimestamp, description |-> None, language |-> None] }

\* --action-type takes any str: the five of ActionTypes and one more
MainActionTypes == ActionTypes \cup {"ANALYZE"}

MainInit ==
    /\ pc = "fetch"
    /\ api \in {"ok", "http_error", "exception"}
    /\ repos_data \in NamedRepoLists(MainRepoSamples)
    /\ action_type \in MainActionTypes
    /\ target_repos \in {ALL, RepoName(2)}
    /\ clock = 0
    /\ context = EmptyDict
    /\ reads = <<>>
    /\ candidates = <<>>
    /\ filtered = <<>>
    /\ prioritized = <<>>
    /\ reprioritized = <<>>
    /\ metrics_result = EmptyDict
    /\ actions_data = EmptyDict
    /\ execution_summary = EmptyDict
    /\ DownstreamIdle

GetOrganizationContext ==
    /\ pc = "fetch"
    /\ context' = get_organization_context(api, repos_data, clock)
    /\ pc' = "start"
    /\ UNCHANGED <<action_type, target_repos, clock, reads, candidates, filtered,
                   prioritized, reprioritized>>
    /\ UNCHANGED pipeline_vars
    /\ UNCHANGED downstream_vars

SaveActions ==
    /\ pc = "selected"
    /\ actions_data' = output_data(clock, context, prioritized, action_type, target_repos)
    /\ pc' = "saved"
    /\ UNCHANGED <<api, repos_data, metrics_result, execution_summary>>
    /\ UNCHANGED downstream_vars
    /\ UNCHANGED selector_vars

MainNext == GetOrganizationContext \/ SelectActions \/ SaveActions

SpecMain == MainInit /\ [][MainNext]_vars

---------------------------------------------------------------------------
(* The executor, execute_actions of opencog_executor.py *)

\* an element of selected_actions that is a JSON string, not an object
JsonStr(text) == [json_str |-> text]

IsDict(value) == ~HasKey(value, "json_str")

KnownTypes ==
    {"analyze_organization", "analyze_repository", "sync_organization_profile",
     "check_documentation_health", "check_activity_health",
     "security_scan_organization"}

\* how the handler of an action ends: its try block completes, it raises inside it,
\* or an exception leaves _execute_single_action (the handlers of this file catch
\* every Exception themselves, so this takes a handler that has been replaced)
Outcomes == {"success", "failure", "crash"}

\* action.get('type')
type_of(action) == IF HasKey(action, "type") THEN action["type"] ELSE None

\* the dict _execute_single_action returns when no exception leaves it
execute_single_action(action, outcome, now) ==
    IF HasKey(action, "type") /\ action["type"] \in KnownTypes
        THEN IF outcome = "success"
                 THEN [success |-> TRUE, timestamp |-> now]
                 ELSE [success |-> FALSE, error |-> "handler failed", timestamp |-> now]
        ELSE [success |-> FALSE, error |-> "Unknown action type", timestamp |-> now]

\* a result counted as successful whatever its success field
count_result_as_success(summary, result) ==
    SetItem(SetItem(summary, "successful_actions", summary["successful_actions"] + 1),
            "results", Append(summary["results"], result))

\* the counting and the append of the try block
count_result(summary, result) ==
    LET counted == IF Get(result, "success", FALSE)
                       THEN SetItem(summary, "successful_actions",
                                    summary["successful_actions"] + 1)
                       ELSE SetItem(summary, "failed_actions",
                                    summary["failed_actions"] + 1)
    IN  SetItem(counted, "results", Append(counted["results"], result))

\* the except clause of the loop
count_crash(summary, action, i, message, now) ==
    LET error_result == [action_index |-> i, action_type |-> type_of(action),
                         success |-> FALSE, error |-> message, timestamp |-> now]
    IN  SetItem(SetItem(summary, "results", Append(summary["results"], error_result)),
                "failed_actions", summary["failed_actions"] + 1)

\* the loop left at the first exception, its except clause put around the loop
RECURSIVE execute_loop_stopping(_, _, _, _, _)
execute_loop_stopping(actions, outcomes, k, summary, now) ==
    IF k > Len(actions) THEN summary
    ELSE LET action == actions[k]
             i == k - 1
         IN  IF outcomes[k] = "crash"
                 THEN count_crash(summary, action, i, "crashed", now)
                 ELSE LET result == execute_single_action(action, outcomes[k], now)
                          indexed == SetItem(SetItem(result, "action_index", i),
                                             "action_type", type_of(action))
                      IN  execute_loop_stopping(actions, outcomes, k + 1,
                                                count_result(summary, indexed), now)

\* the loop over actions[k..]; enumerate counts from 0
RECURSIVE execute_loop(_, _, _, _, _)
execute_loop(actions, outcomes, k, summary, now) ==
    IF k > Len(actions) THEN summary
    ELSE LET action == actions[k]
             i == k - 1
             stepped ==
                 IF outcomes[k] = "crash"
                     THEN count_crash(summary, action, i, "crashed", now)
                     ELSE LET result == execute_single_action(action, outcomes[k], now)
                              indexed == SetItem(SetItem(result, "action_index", i),
                                                 "action_type", type_of(action))
                          IN  count_result(summary, indexed)
         IN  execute_loop(actions, outcomes, k + 1, stepped, now)

\* action.get raises AttributeError in the print before the try block
execute_raises(data) ==
    \E k \in 1..Len(Get(data, "selected_actions", <<>>)) :
        ~IsDict(Get(data, "selected_actions", <<>>)[k])

\* the summary execute_actions returns when it does not raise
execute_actions(data, outcomes, start, end) ==
    LET actions == Get(data, "selected_actions", <<>>)
        summary == [start_time |-> start, total_actions |-> Len(actions),
                    successful_actions |-> 0, failed_actions |-> 0,
                    skipped_actions |-> 0, results |-> <<>>]
        done == execute_loop(actions, outcomes, 1, summary, start)
    IN  SetItem(SetItem(done, "end_time", end), "duration_seconds", end - start)

\* elements of selected_actions: catalog actions, an action of an unknown type, one
\* without a type, and a value that is no dict
ExecActionSamples ==
    { analyze_organization, analyze_repository(RepoName(1), 45),
      sync_organization_profile, [type |-> "deploy", priority |-> 10],
      [priority |-> 5], JsonStr("analyze_organization") }

\* the dicts the executor is given: one without selected_actions, and one per list
ExecInputs ==
    { [context |-> EmptyDict] } \cup
    { [selected_actions |-> actions, context |-> EmptyDict] :
        actions \in SeqsUpTo(ExecActionSamples, MaxActions) }

ExecInit ==
    /\ pc = "exec_start"
    /\ clock = 0
    /\ actions_data \in ExecInputs
    /\ api = "none"
    /\ repos_data = <<>>
    /\ metrics_result = EmptyDict
    /\ execution_summary = EmptyDict
    /\ DownstreamIdle
    /\ SelectorIdle

ExecuteActions ==
    /\ pc = "exec_start"
    /\ IF execute_raises(actions_data)
          THEN /\ pc' = "exec_raised"
               /\ UNCHANGED <<clock, execution_summary>>
          ELSE /\ pc' = "exec_done"
               /\ \E outcomes \in [1..Len(Get(actions_data, "selected_actions", <<>>))
                                       -> Outcomes],
                     end \in clock..(clock + MaxDrift) :
                     /\ execution_summary' =
                           execute_actions(actions_data, outcomes, clock, end)
                     /\ clock' = end
    /\ UNCHANGED <<context, action_type, target_repos, reads, candidates, filtered,
                   prioritized, reprioritized>>
    /\ UNCHANGED <<api, repos_data, metrics_result, actions_data>>
    /\ UNCHANGED downstream_vars

\* status 1 also when failures only equal the successes
exit_code_on_tie(results) ==
    IF results["failed_actions"] >= results["successful_actions"] THEN 1 ELSE 0

\* the status main ends with once the results are saved: sys.exit(1), or the end of
\* main, which is status 0
exit_code(results) ==
    IF results["failed_actions"] > results["successful_actions"] THEN 1 ELSE 0

\* the end of main: after execute_actions returned, by its last statement; after it
\* raised, by the uncaught exception, which ends the interpreter with status 1
ExecutorExit ==
    /\ pc \in {"exec_done", "exec_raised"}
    /\ IF pc = "exec_raised"
          THEN /\ pc' = "exec_aborted"
               /\ exit_status' = 1
          ELSE /\ pc' = "exited"
               /\ exit_status' = exit_code(execution_summary)
    /\ UNCHANGED <<clock, action_result, report, thresholds, checked_results,
                   threshold_result>>
    /\ UNCHANGED pipeline_vars
    /\ UNCHANGED selector_vars

ExecNext == ExecuteActions \/ ExecutorExit

SpecExec == ExecInit /\ [][ExecNext]_vars

---------------------------------------------------------------------------
(* Properties of the prioritizer, checked under SpecPrio *)

\* an action without the field the prioritizer adds
Base(action) == [k \in DOMAIN action \ {"calculated_utility"} |-> action[k]]

BaseSeq(actions) == [i \in 1..Len(actions) |-> Base(actions[i])]

Count(seq, x) == Cardinality({i \in 1..Len(seq) : seq[i] = x})

OutdatedCount == Get(Get(context, "health_metrics", EmptyDict), "outdated_repos", 0)

Prioritized == pc \in {"prioritized", "reprioritized"}

\* C1: the prioritizer's output is in descending order of calculated_utility, and
\* two different actions of equal calculated utility stand in the output in the
\* order they had in the input.
C1_SortedDescendingStable ==
    Prioritized =>
        /\ \A i \in 1..(Len(prioritized) - 1) :
              prioritized[i]["calculated_utility"] >= prioritized[i + 1]["calculated_utility"]
        /\ \A i, j \in 1..Len(prioritized) :
              (/\ i < j
               /\ prioritized[i]["calculated_utility"] = prioritized[j]["calculated_utility"])
              => LET pair == {Base(prioritized[i]), Base(prioritized[j])}
                     InPair(a) == a \in pair
                 IN  SelectSeq(BaseSeq(prioritized), InPair) = SelectSeq(filtered, InPair)

\* the input holds two different actions of equal utility after an action of
\* smaller utility, so the sort moves actions and has a tie to keep in order
C1_Witness ==
    /\ pc = "prioritized"
    /\ Len(filtered) = 3
    /\ BaseSeq(prioritized) # filtered
    /\ \E i, j \in 1..3 :
          /\ i < j
          /\ prioritized[i]["calculated_utility"] = prioritized[j]["calculated_utility"]
          /\ Base(prioritized[i]) # Base(prioritized[j])

\* the utility the claim gives an action of this goal and base priority (tenths),
\* in units of 1/10000
ClaimedUtility(goal, priority, outdated) ==
    CASE goal = "security" -> priority * 1300
      [] goal = "maintenance" /\ outdated > 3 -> priority * 1200
      [] goal = "understanding" -> priority * 1100
      [] OTHER -> priority * 1000

C2_ExampleInput ==
    /\ Len(filtered) = 2
    /\ filtered[1].type = "check_activity_health"
    /\ filtered[2].type = "analyze_organization"
    /\ OutdatedCount = 5

\* C2: every action's calculated_utility is its base priority times 1.3 (security),
\* 1.2 (maintenance, outdated count > 3), 1.1 (understanding) or 1 (otherwise);
\* with outdated count 5, [check_activity_health, analyze_organization] gets 0.84
\* and 1.1 and comes out as [analyze_organization, check_activity_health].
C2_UtilityPerGoal ==
    Prioritized =>
        /\ \A i \in 1..Len(prioritized) :
              prioritized[i]["calculated_utility"] =
                  ClaimedUtility(prioritized[i].goal, prioritized[i].priority, OutdatedCount)
        /\ C2_ExampleInput =>
              /\ Len(prioritized) = 2
              /\ prioritized[1].type = "analyze_organization"
              /\ prioritized[1]["calculated_utility"] = 11000
              /\ prioritized[2].type = "check_activity_health"
              /\ prioritized[2]["calculated_utility"] = 8400

C2_Witness == pc = "prioritized" /\ C2_ExampleInput

\* C7: the prioritizer run on its own output returns that output: same order, same
\* utilities.
C7_PrioritizeIdempotent ==
    pc = "reprioritized" => reprioritized = prioritized

\* a second run over a first run that moved actions, kept a tie and boosted a utility
C7_Witness ==
    /\ pc = "reprioritized"
    /\ Len(prioritized) = 3
    /\ BaseSeq(prioritized) # filtered
    /\ prioritized[2]["calculated_utility"] = prioritized[3]["calculated_utility"]
    /\ Base(prioritized[2]) # Base(prioritized[3])
    /\ prioritized[2]["calculated_utility"] > prioritized[2].priority * 1000

\* C8: the prioritizer's output holds the actions of its input, each as often as the
\* input does, with type, goal, priority, target_repo and parameters unchanged and
\* calculated_utility as the one added field.
C8_OutputPermutesInput ==
    Prioritized =>
        /\ Len(prioritized) = Len(filtered)
        /\ \A i \in 1..Len(filtered) :
              Count(BaseSeq(prioritized), filtered[i]) = Count(filtered, filtered[i])
        /\ \A i \in 1..Len(prioritized) :
              /\ DOMAIN prioritized[i] =
                     {"type", "priority", "goal", "target_repo", "parameters",
                      "calculated_utility"}
              /\ \E j \in 1..Len(filtered) :
                     /\ prioritized[i].type = filtered[j].type
                     /\ prioritized[i].goal = filtered[j].goal
                     /\ prioritized[i].priority = filtered[j].priority
                     /\ prioritized[i].target_repo = filtered[j].target_repo
                     /\ prioritized[i].parameters = filtered[j].parameters

\* three different actions, one of them twice boosted out of its input position
C8_Witness ==
    /\ pc = "prioritized"
    /\ Len(filtered) = 3
    /\ Cardinality(Range(filtered)) = 3
    /\ BaseSeq(prioritized) # filtered
    /\ \E i \in 1..3 : prioritized[i]["calculated_utility"] > prioritized[i].priority * 1000

---------------------------------------------------------------------------
(* Properties of the target filter, checked under SpecFilter *)

Filtered == pc \in {"filtered", "prioritized"}

Blanks(n) == [i \in 1..n |-> " "]

\* s[i..j] is one of the pieces the commas of s separate
IsPiece(s, i, j) ==
    /\ i = 1 \/ s[i - 1] = ","
    /\ j = Len(s) \/ s[j + 1] = ","
    /\ \A k \in i..j : s[k] # ","

\* name is piece without the blanks around it
IsTrimmed(name, piece) ==
    /\ name = <<>> \/ (name[1] # " " /\ name[Len(name)] # " ")
    /\ \E l, r \in 0..Len(piece) : piece = Blanks(l) \o name \o Blanks(r)

\* name is one of the comma-separated names of the target specification s
IsTargetName(name, s) ==
    \E i \in 1..(Len(s) + 1), j \in 0..Len(s) :
        /\ j >= i - 1
        /\ IsPiece(s, i, j)
        /\ IsTrimmed(name, SubSeq(s, i, j))

\* C3: for a target specification other than exactly "all", the filter keeps an
\* action if and only if its target_repo is "all" or is one of the comma-separated
\* target names, each trimmed of surrounding blanks.
C3_FilterKeepsAllOrListed ==
    (Filtered /\ target_repos # ALL) =>
        LET Claimed(action) ==
                \/ action.target_repo = ALL
                \/ IsTargetName(action.target_repo, target_repos)
        IN  /\ \A i \in 1..Len(candidates) :
                  Claimed(candidates[i]) <=> (candidates[i] \in Range(filtered))
            /\ \A i \in 1..Len(filtered) : Claimed(filtered[i])

\* the target names one repository with blanks around the name: that repository's
\* action is kept, the other repository's is dropped
C3_Witness ==
    /\ pc = "filtered"
    /\ target_repos = <<" ">> \o RepoName(1) \o <<" ">>
    /\ \E i, j \in 1..Len(candidates) :
          /\ candidates[i].target_repo = RepoName(1)
          /\ candidates[j].target_repo = RepoName(2)
          /\ candidates[i] \in Range(filtered)
          /\ candidates[j] \notin Range(filtered)

\* C4: with the target specification exactly "all" the filter is the identity: the
\* candidates reach the prioritizer unchanged and in order, whatever their
\* target_repo.
C4_FilterAllIsIdentity ==
    (Filtered /\ target_repos = ALL) =>
        /\ filtered = candidates
        /\ pc = "prioritized" =>
              /\ Len(prioritized) = Len(candidates)
              /\ \A i \in 1..Len(candidates) :
                    Count(BaseSeq(prioritized), candidates[i]) =
                        Count(candidates, candidates[i])

\* target "all" and candidates scoped to single repositories among them
C4_Witness ==
    /\ pc = "prioritized"
    /\ target_repos = ALL
    /\ Len(candidates) = 3
    /\ candidates[1].target_repo = RepoName(2)
    /\ candidates[2].target_repo = ALL
    /\ candidates[3].target_repo = RepoName(1)

RECURSIVE IsSubsequence(_, _)
IsSubsequence(sub, seq) ==
    IF sub = <<>> THEN TRUE
    ELSE IF seq = <<>> THEN FALSE
    ELSE IF Head(sub) = Head(seq) THEN IsSubsequence(Tail(sub), Tail(seq))
    ELSE IsSubsequence(sub, Tail(seq))

\* C5: the filtered list is a subsequence of the candidate list: the surviving
\* actions keep their relative order.
C5_FilterKeepsOrder == Filtered => IsSubsequence(filtered, candidates)

\* a repository's action listed before an organization-wide one, both kept, a third
\* action dropped
C5_Witness ==
    /\ pc = "filtered"
    /\ target_repos # ALL
    /\ Len(candidates) = 3
    /\ Len(filtered) = 2
    /\ filtered[1].target_repo # ALL
    /\ filtered[2].target_repo = ALL

C6_NothingMatches ==
    /\ target_repos # ALL
    /\ \A i \in 1..Len(candidates) :
          /\ candidates[i].target_repo # ALL
          /\ ~IsTargetName(candidates[i].target_repo, target_repos)

\* C6: when no candidate is scoped "all" and the target list names none of the
\* candidates' repositories, the filtered list is empty.
C6_FilterNoMatchIsEmpty == (Filtered /\ C6_NothingMatches) => filtered = <<>>

\* candidates of one repository, a target list naming the other
C6_Witness ==
    /\ pc = "filtered"
    /\ C6_NothingMatches
    /\ Len(candidates) >= 2
    /\ target_repos = RepoName(2) \o <<",", " ">> \o RepoName(2) \o <<" ">>

---------------------------------------------------------------------------
(* Properties of the action catalog, checked under Spec *)

Repos == Get(context, "repositories", <<>>)

Metrics == Get(context, "health_metrics", EmptyDict)

Selected(atype) == pc = "selected" /\ action_type = atype

\* the time between repository i's last update and the clock reading taken for it
Elapsed(i) == reads[i] - fromisoformat(Repos[i].updated_at)

\* the candidates are analyze_organization followed by one analyze_repository
\* action for each repository that is Stale, in repository-list order
AnalyzeCandidatesFor(Stale(_)) ==
    LET stale == SelectSeq([i \in 1..Len(Repos) |-> i], Stale)
    IN  /\ Len(candidates) = 1 + Len(stale)
        /\ candidates[1].type = "analyze_organization"
        /\ candidates[1].priority = 10
        /\ candidates[1].goal = "understanding"
        /\ candidates[1].target_repo = ALL
        /\ \A k \in 1..Len(stale) :
              LET action == candidates[k + 1]
                  i == stale[k]
              IN  /\ action.type = "analyze_repository"
                  /\ action.priority = 8
                  /\ action.goal = "maintenance"
                  /\ action.target_repo = Repos[i].name
                  /\ action.parameters.days_since_update * TicksPerDay <= Elapsed(i)
                  /\ Elapsed(i) < (action.parameters.days_since_update + 1) * TicksPerDay

\* repositories last updated 5, 45 and 120 days before the clock's readings
C9_ExampleInput ==
    /\ Len(Repos) = 3
    /\ Elapsed(1) = 5 * TicksPerDay
    /\ Elapsed(2) = 45 * TicksPerDay
    /\ Elapsed(3) = 120 * TicksPerDay

\* C9 as stated: for selector "analyze" the candidates are analyze_organization and
\* then one analyze_repository action for each repository whose staleness, the time
\* elapsed since its last update, exceeds 30 days, and for no other repository.
C9_AnalyzeStalenessOver30Days ==
    Selected("analyze") => AnalyzeCandidatesFor(LAMBDA i : Elapsed(i) > 30 * TicksPerDay)

\* C9 amended: for selector "analyze" the candidates are analyze_organization and
\* then one analyze_repository action for each repository whose staleness counted
\* in whole days (the fraction of a day dropped) exceeds 30, that is for each
\* repository last updated 31 days ago or earlier, and for no other repository;
\* staleness 5, 45 and 120 days gives analyze_organization, the 45-day repository,
\* the 120-day repository.
C9_AnalyzeWholeDaysOver30 ==
    Selected("analyze") =>
        /\ AnalyzeCandidatesFor(LAMBDA i : Elapsed(i) >= 31 * TicksPerDay)
        /\ C9_ExampleInput =>
              /\ Len(candidates) = 3
              /\ candidates[2].target_repo = Repos[2].name
              /\ candidates[2].parameters.days_since_update = 45
              /\ candidates[3].target_repo = Repos[3].name
              /\ candidates[3].parameters.days_since_update = 120

C9_Witness == Selected("analyze") /\ C9_ExampleInput /\ Len(candidates) = 3

\* C10: for selector "health_check" the candidates are check_documentation_health
\* (priority 0.9, goal quality) exactly when the documentation-gap count is > 0,
\* then check_activity_health (priority 0.7, goal maintenance) exactly when the
\* outdated count is > 0; with both counts 0 or empty metrics there is no candidate.
C10_HealthCandidates ==
    Selected("health_check") =>
        LET gaps == Get(Metrics, "needs_documentation", 0)
            outdated == Get(Metrics, "outdated_repos", 0)
            IsDoc(a) == /\ a.type = "check_documentation_health"
                        /\ a.priority = 9
                        /\ a.goal = "quality"
            IsActivity(a) == /\ a.type = "check_activity_health"
                             /\ a.priority = 7
                             /\ a.goal = "maintenance"
        IN  CASE gaps > 0 /\ outdated > 0 ->
                   /\ Len(candidates) = 2
                   /\ IsDoc(candidates[1])
                   /\ IsActivity(candidates[2])
              [] gaps > 0 /\ ~(outdated > 0) ->
                   Len(candidates) = 1 /\ IsDoc(candidates[1])
              [] ~(gaps > 0) /\ outdated > 0 ->
                   Len(candidates) = 1 /\ IsActivity(candidates[1])
              [] OTHER -> candidates = <<>>

\* both counts positive: both actions, the documentation action first
C10_Witness ==
    /\ Selected("health_check")
    /\ Get(Metrics, "needs_documentation", 0) > 0
    /\ Get(Metrics, "outdated_repos", 0) > 0
    /\ Len(candidates) = 2

\* C21: select_actions with selector "analyze" returns at least one action for
\* every context, an empty repository list included, and every target
\* specification: analyze_organization is always generated and survives the filter.
C21_AnalyzeIsNeverEmpty ==
    Selected("analyze") =>
        /\ Len(prioritized) >= 1
        /\ \E i \in 1..Len(prioritized) :
              /\ prioritized[i].type = "analyze_organization"
              /\ prioritized[i].target_repo = ALL

\* "analyze" on no repository with a target list that names repositories
C21_Witness ==
    /\ Selected("analyze")
    /\ Repos = <<>>
    /\ target_repos # ALL
    /\ Len(prioritized) = 1

\* C25: filtering and prioritizing commute: filtering the candidates and then
\* prioritizing them, as select_actions does, gives the same ordered list with the
\* same utilities as prioritizing all the candidates and then filtering.
C25_FilterAndPrioritizeCommute ==
    pc = "selected" =>
        prioritized = filter_actions(prioritize_actions(candidates, context), target_repos)

\* a call in which the filter removed a candidate and the prioritizer reordered
\* the rest
C25_Witness ==
    /\ pc = "selected"
    /\ target_repos # ALL
    /\ Len(prioritized) < Len(candidates)
    /\ Len(prioritized) >= 3
    /\ \E i \in 1..Len(prioritized) : prioritized[i].type # filtered[i].type

\* C26: for selector "analyze" and for every selector that falls back to
\* comprehensive, the first element of the output of select_actions is the
\* analyze_organization action, whatever the repositories, the metrics and the
\* target specification: its utility 1.1 strictly exceeds that of every other action.
C26_AnalyzeOrganizationComesFirst ==
    (pc = "selected" /\ action_type \notin {"sync", "health_check", "security_scan"}) =>
        /\ prioritized # <<>>
        /\ prioritized[1].type = "analyze_organization"
        /\ prioritized[1].calculated_utility = 11000
        /\ \A i \in 2..Len(prioritized) : prioritized[i].calculated_utility < 11000

\* the fallback selector with the maintenance boost in force: a boosted
\* analyze_repository action (utility 0.96) and the sync action (1.0) follow
C26_Witness ==
    /\ Selected("comprehensive")
    /\ Get(Metrics, "outdated_repos", 0) > OutdatedBoostThreshold
    /\ prioritized[1].type = "analyze_organization"
    /\ \E i \in 2..Len(prioritized) :
          /\ prioritized[i].type = "analyze_repository"
          /\ prioritized[i].calculated_utility = 9600
    /\ \E i \in 2..Len(prioritized) : prioritized[i].calculated_utility = 10000

\* the candidates are one action with these fields, organization-wide, priority 1.0
IsTheOnlyCandidate(type, goal) ==
    /\ Len(candidates) = 1
    /\ candidates[1].type = type
    /\ candidates[1].priority = 10
    /\ candidates[1].goal = goal
    /\ candidates[1].target_repo = ALL

\* C12: for selector "sync" the candidates are exactly one sync_organization_profile
\* action (priority 1.0, goal consistency, target "all"), and for "security_scan"
\* exactly one security_scan_organization action (priority 1.0, goal security,
\* target "all"), whatever the repository list and the metrics, empty ones included.
C12_SyncAndSecurityAreUnconditional ==
    /\ Selected("sync") => IsTheOnlyCandidate("sync_organization_profile", "consistency")
    /\ Selected("security_scan") =>
          IsTheOnlyCandidate("security_scan_organization", "security")

\* "sync" selected on no repository and empty metrics
C12_Witness ==
    /\ Selected("sync")
    /\ Repos = <<>>
    /\ Metrics = EmptyDict
    /\ Len(candidates) = 1

---------------------------------------------------------------------------
(* Properties of the aggregator, checked under SpecMetrics *)

\* the aggregator has returned metrics for a non-empty repository list
MetricsDone == pc = "metrics_done" /\ repos_data # <<>>

\* the time between repository i's last update and the aggregator's `now`
Staleness(i) == clock - fromisoformat(repos_data[i]["updated_at"])

\* the number of repositories of the list that satisfy P
CountRepos(P(_)) == Cardinality({i \in 1..Len(repos_data) : P(i)})

InWatchBand(i) ==
    /\ Staleness(i) >= 31 * TicksPerDay
    /\ Staleness(i) < 91 * TicksPerDay

\* C14: for a non-empty repository list total_repos is the number of repositories
\* and active_repos + outdated_repos <= total_repos, with equality exactly when no
\* repository has a staleness in days in the 31-90 band.
C14_ActivePlusOutdatedAtMostTotal ==
    MetricsDone =>
        /\ metrics_result["total_repos"] = Len(repos_data)
        /\ metrics_result["active_repos"] + metrics_result["outdated_repos"]
              <= metrics_result["total_repos"]
        /\ (metrics_result["active_repos"] + metrics_result["outdated_repos"]
              = metrics_result["total_repos"])
              <=> ~ \E i \in 1..Len(repos_data) : InWatchBand(i)

\* a list with a repository in the band next to an active and an outdated one
C14_Witness ==
    /\ MetricsDone
    /\ Len(repos_data) = 3
    /\ \E i \in 1..Len(repos_data) : InWatchBand(i)
    /\ metrics_result["active_repos"] = 1
    /\ metrics_result["outdated_repos"] = 1

\* C15: a repository is counted toward needs_documentation iff its description is
\* missing, empty or at most 10 characters long; a description of exactly 10
\* characters counts, one of 11 characters does not.
C15_GapIffDescriptionAtMost10 ==
    MetricsDone =>
        metrics_result["needs_documentation"] =
            CountRepos(LAMBDA i :
                LET description == Get(repos_data[i], "description", None)
                IN  \/ description = None
                    \/ description = <<>>
                    \/ Len(description) <= 10)

\* the aggregator has returned for an empty repository list
EmptyDone == pc = "metrics_done" /\ repos_data = <<>>

CounterKeys == {"total_repos", "active_repos", "outdated_repos", "needs_documentation"}

\* C17 as stated: on an empty repository list the aggregator raises no error and
\* yields metrics whose total, active, outdated and documentation-gap counters are
\* all zero and whose language histogram is empty.
C17_EmptyListGivesZeroCounters ==
    /\ (pc = "metrics_raised" => repos_data # <<>>)
    /\ EmptyDone =>
          /\ \A k \in CounterKeys : HasKey(metrics_result, k) /\ metrics_result[k] = 0
          /\ HasKey(metrics_result, "languages")
          /\ metrics_result["languages"] = EmptyDict

\* C17 amended: on an empty repository list the aggregator raises no error and
\* yields the empty metrics dict: it holds no total, active, outdated or
\* documentation-gap counter and no language histogram, and each counter reads as
\* zero, the histogram as empty, through the default its reader supplies.
C17_EmptyListGivesEmptyMetrics ==
    /\ (pc = "metrics_raised" => repos_data # <<>>)
    /\ EmptyDone =>
          /\ metrics_result = EmptyDict
          /\ \A k \in CounterKeys : ~HasKey(metrics_result, k)
          /\ \A k \in CounterKeys : Get(metrics_result, k, 0) = 0
          /\ ~HasKey(metrics_result, "languages")
          /\ Get(metrics_result, "languages", EmptyDict) = EmptyDict

C17_Witness == EmptyDone /\ metrics_result = EmptyDict

RECURSIVE SumOver(_, _)
SumOver(h, keys) ==
    IF keys = {} THEN 0
    ELSE LET k == CHOOSE x \in keys : TRUE
         IN  h[k] + SumOver(h, keys \ {k})

\* C18: the language histogram maps each non-empty language value to the number of
\* repositories that have it; a repository with no language adds no entry, so no
\* key is null or empty and the counts sum to the number of repositories that have
\* a language.
C18_HistogramCountsLanguages ==
    MetricsDone =>
        LET languages == metrics_result["languages"]
            Language(i) == Get(repos_data[i], "language", None)
            HasLanguage(i) == Language(i) # None /\ Language(i) # <<>>
        IN  /\ DOMAIN languages =
                  {Language(i) : i \in {j \in 1..Len(repos_data) : HasLanguage(j)}}
            /\ \A l \in DOMAIN languages :
                  languages[l] = CountRepos(LAMBDA i : Language(i) = l)
            /\ None \notin DOMAIN languages
            /\ <<>> \notin DOMAIN languages
            /\ SumOver(languages, DOMAIN languages) = CountRepos(HasLanguage)

\* two repositories of one language, one without a language
C18_Witness ==
    /\ MetricsDone
    /\ \E l \in DOMAIN metrics_result["languages"] : metrics_result["languages"][l] = 2
    /\ \E i \in 1..Len(repos_data) : repos_data[i]["language"] = None

---------------------------------------------------------------------------
(* Properties of a run of main, checked under SpecMain *)

\* the API returned a repository whose last-updated timestamp cannot be parsed
MalformedInput ==
    /\ api = "ok"
    /\ \E i \in 1..Len(repos_data) : ~Parseable(repos_data[i]["updated_at"])

\* C16: when a repository's last-updated timestamp cannot be parsed the run fails
\* and produces no prioritized action list: it never goes on to select and save
\* actions computed from substituted default data.
C16_MalformedTimestampFailsRun ==
    MalformedInput =>
        /\ pc \notin {"selected", "saved"}
        /\ prioritized = <<>>
        /\ actions_data = EmptyDict

\* C11: for every selector other than "analyze", "sync", "health_check" and
\* "security_scan" the candidates are the candidates of "analyze", then those of
\* "sync", then those of "health_check", each computed on the same repositories and
\* metrics, and no candidate is a security_scan_organization action.
C11_ComprehensiveIsAnalyzeSyncHealth ==
    (pc = "selected"
         /\ action_type \notin {"analyze", "sync", "health_check", "security_scan"}) =>
        /\ candidates = catalog("analyze", Repos, Metrics, reads)
                            \o catalog("sync", Repos, Metrics, reads)
                            \o catalog("health_check", Repos, Metrics, reads)
        /\ \A i \in 1..Len(candidates) : candidates[i].type # "security_scan_organization"

\* an unlisted selector on a context where each of the three parts contributes: a
\* stale repository and both health counters positive
C11_Witness ==
    /\ pc = "selected"
    /\ action_type = "ANALYZE"
    /\ \E i \in 1..Len(candidates) : candidates[i].type = "analyze_repository"
    /\ \E i \in 1..Len(candidates) : candidates[i].type = "sync_organization_profile"
    /\ \E i \in 1..Len(candidates) : candidates[i].type = "check_documentation_health"
    /\ \E i \in 1..Len(candidates) : candidates[i].type = "check_activity_health"

---------------------------------------------------------------------------
(* Properties of the executor, checked under SpecExec *)

SelectedActions == Get(actions_data, "selected_actions", <<>>)

\* C20: after execute_actions returns, total_actions is the number of selected
\* actions, results holds exactly one result per selected action, successful_actions
\* + failed_actions = total_actions, and skipped_actions = 0.
C20_SummaryCountsEveryAction ==
    pc = "exec_done" =>
        /\ execution_summary["total_actions"] = Len(SelectedActions)
        /\ Len(execution_summary["results"]) = Len(SelectedActions)
        /\ \A k \in 1..Len(SelectedActions) :
              /\ execution_summary["results"][k]["action_index"] = k - 1
              /\ execution_summary["results"][k]["action_type"] = type_of(SelectedActions[k])
        /\ execution_summary["successful_actions"] + execution_summary["failed_actions"]
              = execution_summary["total_actions"]
        /\ execution_summary["successful_actions"] =
              Cardinality({k \in 1..Len(execution_summary["results"]) :
                              execution_summary["results"][k]["success"]})
        /\ execution_summary["skipped_actions"] = 0

\* a run in which one action succeeded, one failed and one crashed
C20_Witness ==
    /\ pc = "exec_done"
    /\ execution_summary["total_actions"] = 3
    /\ execution_summary["successful_actions"] = 1
    /\ execution_summary["failed_actions"] = 2
    /\ \E k \in 1..3 : Get(execution_summary["results"][k], "error", "") = "crashed"

---------------------------------------------------------------------------
(* Properties that relate the aggregator and the catalog in one run of main,
   checked under SpecMain *)

\* the number of analyze_repository actions among the candidates
AnalyzeRepositoryCount ==
    Cardinality({i \in 1..Len(candidates) : candidates[i].type = "analyze_repository"})

\* C24: in one run over one repository list the number of analyze_repository
\* candidates is total_repos - active_repos of the metrics: a repository counted
\* active gets no analyze_repository action and every other repository gets one,
\* although the aggregator and the analysis rule each read the clock themselves.
C24_AnalyzedAreTheNonActive ==
    (pc \in {"selected", "saved"} /\ ReadsClock(action_type)) =>
        AnalyzeRepositoryCount =
            Get(Metrics, "total_repos", 0) - Get(Metrics, "active_repos", 0)

---------------------------------------------------------------------------
(* Further properties of the executor, checked under SpecExec *)

Results == execution_summary["results"]

Failed(result) == ~Get(result, "success", FALSE)

\* C27: execute_actions executes every selected action once and in list order
\* whatever happened to the earlier ones: results[i] carries action_index i and the
\* type of actions[i], and an action that reports failure, raises or has an unknown
\* type is recorded as a failed result and the actions after it are still executed.
C27_EveryActionExecutedInOrder ==
    pc = "exec_done" =>
        /\ DOMAIN Results = DOMAIN SelectedActions
        /\ \A k \in DOMAIN Results :
              /\ Results[k]["action_index"] = k - 1
              /\ Results[k]["action_type"] = type_of(SelectedActions[k])
              /\ HasKey(Results[k], "success")
              /\ ~(HasKey(SelectedActions[k], "type")
                     /\ SelectedActions[k]["type"] \in KnownTypes) => Failed(Results[k])
              /\ Failed(Results[k]) => HasKey(Results[k], "error")
        /\ execution_summary["failed_actions"] =
              Cardinality({k \in DOMAIN Results : Failed(Results[k])})

\* an exception in the first action, an unknown type in the second, and the third
\* action executed successfully after them
C27_Witness ==
    /\ pc = "exec_done"
    /\ Len(Results) = 3
    /\ Get(Results[1], "error", "") = "crashed"
    /\ Get(Results[2], "error", "") = "Unknown action type"
    /\ Results[3]["success"]

---------------------------------------------------------------------------
(* _check_documentation_health of the executor, called on the context the
   aggregator's metrics were computed from *)

\* the description length above which the check calls a repository well documented
WellDocumentedLength == 20

\* repo.get('description', ''): the default only replaces a missing key
description_of(repo) == Get(repo, "description", <<>>)

\* len(None) raises TypeError, repo['name'] raises KeyError without the key
repo_check_raises(repo) ==
    \/ description_of(repo) = None
    \/ ~HasKey(repo, "name")

description_quality(repo) == Len(description_of(repo)) > WellDocumentedLength

repo_info(repo) ==
    [name |-> repo["name"],
     has_description |-> Truthy(description_of(repo)),
     description_length |-> Len(description_of(repo)),
     stars |-> Get(repo, "stargazers_count", 0)]

\* part / whole * 100, kept as the exact fraction
Percent(part, whole) == [num |-> part * 100, den |-> whole]

\* the loop over repos[i..]
RECURSIVE docs_loop(_, _, _)
docs_loop(repos, i, docs_analysis) ==
    IF i > Len(repos) THEN docs_analysis
    ELSE LET repo == repos[i]
             list == IF description_quality(repo)
                         THEN "well_documented_repos"
                         ELSE "repositories_needing_docs"
         IN  docs_loop(repos, i + 1,
                       SetItem(docs_analysis, list,
                               Append(docs_analysis[list], repo_info(repo))))

\* the dict the handler returns: its try block's, or its except clause's when an
\* exception is raised inside the loop
execute_check_documentation_health(ctx, now) ==
    LET repos == Get(ctx, "repositories", <<>>)
        docs_analysis == docs_loop(repos, 1,
                                   [repositories_needing_docs |-> <<>>,
                                    well_documented_repos |-> <<>>,
                                    documentation_score |-> 0])
        total_repos == Len(repos)
        well_documented == Len(docs_analysis["well_documented_repos"])
        score == IF total_repos > 0 THEN Percent(well_documented, total_repos) ELSE 0
    IN  IF \E k \in 1..Len(repos) : repo_check_raises(repos[k])
            THEN [success |-> FALSE, error |-> "TypeError", timestamp |-> now]
            ELSE [success |-> TRUE, timestamp |-> now,
                  documentation_health |->
                      SetItem(docs_analysis, "documentation_score", score)]

\* descriptions around both thresholds, a null one, an empty one and a missing key
DocDescriptionSamples ==
    {None, <<>>, Text(MinDescription), Text(MinDescription + 1),
     Text(WellDocumentedLength), Text(WellDocumentedLength + 1)}

DocRepoSamples ==
    { [updated_at |-> IsoZ(0 - ActiveDays * TicksPerDay), description |-> d,
       language |-> <<"G", "o">>] : d \in DocDescriptionSamples }
    \cup
    { [updated_at |-> IsoZ(0 - ActiveDays * TicksPerDay), language |-> None] }

DocsInit ==
    /\ pc = "metrics_start"
    /\ clock = 0
    /\ repos_data \in NamedRepoLists(DocRepoSamples)
    /\ api = "none"
    /\ metrics_result = EmptyDict
    /\ actions_data = EmptyDict
    /\ execution_summary = EmptyDict
    /\ DownstreamIdle
    /\ SelectorIdle

CheckDocumentationHealth ==
    /\ pc = "metrics_done"
    /\ action_result' =
          execute_check_documentation_health([repositories |-> repos_data], clock)
    /\ pc' = "docs_done"
    /\ UNCHANGED <<clock, exit_status, report, thresholds, checked_results,
                   threshold_result>>
    /\ UNCHANGED pipeline_vars
    /\ UNCHANGED selector_vars

DocsNext == CalculateHealthMetrics \/ CheckDocumentationHealth

SpecDocs == DocsInit /\ [][DocsNext]_vars

---------------------------------------------------------------------------
(* Properties of the documentation check, checked under SpecDocs *)

DocsHealth == action_result["documentation_health"]

\* the names the check put in one of its two lists
NamesIn(list) == {list[i]["name"] : i \in 1..Len(list)}

\* C28: check_documentation_health succeeds for every repository list, whether a
\* description is null, empty or any string, and a repository with a null
\* description is listed as needing docs.
C28_NullDescriptionNeedsDocs ==
    pc = "docs_done" =>
        /\ action_result["success"]
        /\ \A k \in 1..Len(repos_data) :
              Get(repos_data[k], "description", <<>>) = None =>
                  repos_data[k]["name"] \in NamesIn(DocsHealth["repositories_needing_docs"])

\* C22: the check puts every repository in exactly one of its two lists, in
\* well_documented_repos exactly when its description is longer than 20, so every
\* repository the aggregator counts as a documentation gap needs docs for the
\* check, and one with 11 to 20 characters is no gap but needs docs.
C22_EveryGapNeedsDocs ==
    pc = "docs_done" =>
        /\ action_result["success"]
        /\ \A k \in 1..Len(repos_data) :
              LET name == repos_data[k]["name"]
                  well == name \in NamesIn(DocsHealth["well_documented_repos"])
                  needs == name \in NamesIn(DocsHealth["repositories_needing_docs"])
              IN  /\ well # needs
                  /\ well <=> Len(Get(repos_data[k], "description", <<>>))
                                  > WellDocumentedLength
                  /\ lacks_description(repos_data[k]) => needs
        /\ Len(DocsHealth["well_documented_repos"])
              + Len(DocsHealth["repositories_needing_docs"]) = Len(repos_data)

---------------------------------------------------------------------------
(* Properties of the executor's exit status, checked under SpecExec *)

\* C30: once execute_actions has returned, the executor process exits with status
\* 1 if and only if failed_actions is strictly greater than successful_actions, so
\* a run with as many failures as successes, and a run with no action, exit with 0.
C30_ExitsOneIffMoreFailures ==
    pc = "exited" =>
        /\ exit_status \in {0, 1}
        /\ exit_status = 1 <=>
              execution_summary["failed_actions"] > execution_summary["successful_actions"]
        /\ execution_summary["total_actions"] = 0 => exit_status = 0

\* one action succeeded, one failed, and the process exits normally
C30_Witness ==
    /\ pc = "exited"
    /\ execution_summary["failed_actions"] = 1
    /\ execution_summary["successful_actions"] = 1
    /\ exit_status = 0

---------------------------------------------------------------------------
(* _generate_executive_summary of the reporter, called on the results the
   executor saved *)

\* the largest number of executed actions in a results file given to the reporter
MaxReported == 10

\* the success rates, in percent, from which the three upper statuses start
ExcellentRate == 90

GoodRate == 70

FairRate == 50

\* rate >= n, for a rate kept as a fraction
AtLeast(rate, n) == rate["num"] >= n * rate["den"]

\* round(rate, 1), in tenths of a percent; no rate of fewer than 16 actions lies
\* halfway between two tenths
round1(rate) == (rate["num"] * 20 + rate["den"]) \div (2 * rate["den"])

\* a rate of 100 when no action was executed
success_rate_vacuous(results) ==
    LET total_actions == Get(results, "total_actions", 0)
        successful == Get(results, "successful_actions", 0)
    IN  IF total_actions > 0 THEN Percent(successful, total_actions) ELSE Percent(1, 1)

\* successful / total_actions * 100, and 0 when no action was executed
success_rate(results) ==
    LET total_actions == Get(results, "total_actions", 0)
        successful == Get(results, "successful_actions", 0)
    IN  IF total_actions > 0 THEN Percent(successful, total_actions) ELSE Percent(0, 1)

overall_status(rate) ==
    IF AtLeast(rate, ExcellentRate) THEN "EXCELLENT"
    ELSE IF AtLeast(rate, GoodRate) THEN "GOOD"
    ELSE IF AtLeast(rate, FairRate) THEN "FAIR"
    ELSE "NEEDS_ATTENTION"

\* the loop over results[k..] that collects achievements and issues
RECURSIVE extract_loop(_, _, _)
extract_loop(results, k, summary) ==
    IF k > Len(results) THEN summary
    ELSE LET result == results[k]
             next ==
                 IF Get(result, "success", FALSE) /\ HasKey(result, "analysis")
                     THEN SetItem(summary, "key_achievements",
                                  Append(summary["key_achievements"],
                                         Get(result, "action_type", "action")))
                 ELSE IF ~Get(result, "success", FALSE)
                     THEN SetItem(summary, "critical_issues",
                                  Append(summary["critical_issues"],
                                         [action |-> Get(result, "action_type", "unknown"),
                                          error |-> Get(result, "error", "Unknown error")]))
                 ELSE summary
         IN  extract_loop(results, k + 1, next)

generate_executive_summary(results) ==
    LET rate == success_rate(results)
        summary == [overall_status |-> overall_status(rate),
                    success_rate_percent |-> round1(rate),
                    actions_executed |-> Get(results, "total_actions", 0),
                    successful_actions |-> Get(results, "successful_actions", 0),
                    failed_actions |-> Get(results, "failed_actions", 0),
                    execution_duration_seconds |-> Get(results, "duration_seconds", 0),
                    key_achievements |-> <<>>,
                    critical_issues |-> <<>>]
    IN  extract_loop(Get(results, "results", <<>>), 1, summary)

\* what execute_actions returns for `total` actions of which the first `successful`
\* succeeded and the others failed in their handler
executed(total, successful) ==
    [start_time |-> 0, total_actions |-> total, successful_actions |-> successful,
     failed_actions |-> total - successful, skipped_actions |-> 0,
     results |->
         [k \in 1..total |->
             IF k <= successful
                 THEN [action_index |-> k - 1, action_type |-> "analyze_organization",
                       success |-> TRUE, timestamp |-> 0, analysis |-> EmptyDict]
                 ELSE [action_index |-> k - 1, action_type |-> "sync_organization_profile",
                       success |-> FALSE, error |-> "handler failed", timestamp |-> 0]],
     end_time |-> 0, duration_seconds |-> 0]

\* the results files given to the reporter, and a JSON object without any key
ReportInputs ==
    { executed(total, successful) : total \in 0..MaxReported,
                                    successful \in 0..MaxReported }
    \cup {EmptyDict}

ReportInit ==
    /\ pc = "report_start"
    /\ clock = 0
    /\ execution_summary \in
          {results \in ReportInputs :
              Get(results, "successful_actions", 0) <= Get(results, "total_actions", 0)}
    /\ api = "none"
    /\ repos_data = <<>>
    /\ metrics_result = EmptyDict
    /\ actions_data = EmptyDict
    /\ DownstreamIdle
    /\ SelectorIdle

GenerateReport ==
    /\ pc = "report_start"
    /\ report' = generate_executive_summary(execution_summary)
    /\ pc' = "reported"
    /\ UNCHANGED <<clock, action_result, exit_status, thresholds, checked_results,
                   threshold_result>>
    /\ UNCHANGED pipeline_vars
    /\ UNCHANGED selector_vars

ReportNext == GenerateReport

SpecReport == ReportInit /\ [][ReportNext]_vars

---------------------------------------------------------------------------
(* Properties of the reporter, checked under SpecReport *)

TotalActions == Get(execution_summary, "total_actions", 0)

Successful == Get(execution_summary, "successful_actions", 0)

\* successful / total x 100 lies in [low, high), for a run with actions
RateIn(low, high) ==
    /\ TotalActions > 0
    /\ Successful * 100 >= low * TotalActions
    /\ Successful * 100 < high * TotalActions

\* C29: the reporter's overall status is EXCELLENT iff the success rate is at least
\* 90, GOOD iff it is in [70, 90), FAIR iff it is in [50, 70) and NEEDS_ATTENTION
\* otherwise, the rate being 0 when no action was executed, so that a run without
\* actions is reported NEEDS_ATTENTION.
C29_StatusFollowsSuccessRate ==
    pc = "reported" =>
        /\ report["overall_status"] = "EXCELLENT" <=> RateIn(90, 101)
        /\ report["overall_status"] = "GOOD" <=> RateIn(70, 90)
        /\ report["overall_status"] = "FAIR" <=> RateIn(50, 70)
        /\ report["overall_status"] = "NEEDS_ATTENTION" <=>
              (TotalActions = 0 \/ RateIn(0, 50))
        /\ TotalActions = 0 => report["success_rate_percent"] = 0

\* a run of no action at all, reported NEEDS_ATTENTION
C29_Witness ==
    /\ pc = "reported"
    /\ HasKey(execution_summary, "total_actions")
    /\ TotalActions = 0
    /\ report["overall_status"] = "NEEDS_ATTENTION"

---------------------------------------------------------------------------
(* check_thresholds of the health threshold checker, called on a results document
   and the thresholds of its configuration file; metric values and thresholds of
   this section are whole percents and whole seconds *)

\* the largest number of categories in the thresholds of a configuration file
MaxCategories == 3

\* the thresholds a category is checked against when its configuration has none
DefaultExcellent == 95

DefaultGood == 80

DefaultWarning == 60

\* the loop of _extract_metrics over results[k..]
RECURSIVE extract_metrics_loop(_, _, _)
extract_metrics_loop(results, k, metrics) ==
    IF k > Len(results) THEN metrics
    ELSE LET result == results[k]
             atype == Get(result, "action_type", "")
             next ==
                 IF atype = "check_activity_health" /\ HasKey(result, "activity_health")
                     THEN SetItem(metrics, "repository_activity",
                                  Get(result["activity_health"], "activity_score", 0))
                 ELSE IF atype = "check_documentation_health"
                         /\ HasKey(result, "documentation_health")
                     THEN SetItem(metrics, "documentation_score",
                                  Get(result["documentation_health"],
                                      "documentation_score", 0))
                 ELSE metrics
         IN  extract_metrics_loop(results, k + 1, next)

extract_metrics(results) ==
    LET exec_summary == Get(results, "executive_summary", EmptyDict)
        metrics == [success_rate |-> Get(exec_summary, "success_rate_percent", 0),
                    execution_time |-> Get(exec_summary, "execution_duration_seconds", 0)]
    IN  extract_metrics_loop(Get(results, "results", <<>>), 1, metrics)

\* the level of a value, by the same comparisons for every category
category_level(value, levels) ==
    IF value >= Get(levels, "excellent", DefaultExcellent) THEN "excellent"
    ELSE IF value >= Get(levels, "good", DefaultGood) THEN "good"
    ELSE IF value >= Get(levels, "warning", DefaultWarning) THEN "warning"
    ELSE "critical"

check_category_threshold(category, value, levels) ==
    [category |-> category, value |-> value, level |-> category_level(value, levels),
     threshold_excellent |-> Get(levels, "excellent", None),
     threshold_good |-> Get(levels, "good", None),
     threshold_warning |-> Get(levels, "warning", None),
     threshold_critical |-> Get(levels, "critical", None)]

\* the overall status taken from the category visited last
update_overall_latest(overall, level) == level

\* the overall status after a category of this level
update_overall(overall, level) ==
    IF level = "critical" THEN "critical"
    ELSE IF level = "warning" /\ overall # "critical" THEN "warning"
    ELSE IF level = "good" /\ overall \notin {"critical", "warning"} THEN "good"
    ELSE overall

\* the loop over self.thresholds.items(), from its k-th item on; items is the
\* sequence of the items in the order of the dict
RECURSIVE check_loop(_, _, _, _)
check_loop(items, k, metrics, found) ==
    IF k > Len(items) THEN found
    ELSE LET category == items[k]["category"]
             next ==
                 IF HasKey(metrics, category)
                     THEN LET result == check_category_threshold(category,
                                            metrics[category], items[k]["levels"])
                          IN  [threshold_results |->
                                   SetItem(found["threshold_results"], category, result),
                               overall_status |->
                                   update_overall(found["overall_status"], result["level"]),
                               critical_issues |->
                                   IF result["level"] = "critical"
                                       THEN Append(found["critical_issues"], result)
                                       ELSE found["critical_issues"]]
                     ELSE found
         IN  check_loop(items, k + 1, metrics, next)

\* the dict check_thresholds returns once the results document is loaded
check_thresholds(items, results, now) ==
    LET metrics == extract_metrics(results)
        found == check_loop(items, 1, metrics,
                            [threshold_results |-> EmptyDict,
                             overall_status |-> "excellent",
                             critical_issues |-> <<>>])
    IN  [success |-> TRUE,
         overall_status |-> found["overall_status"],
         has_critical_issues |-> Len(found["critical_issues"]) > 0,
         critical_issues |-> found["critical_issues"],
         threshold_results |-> found["threshold_results"],
         metrics |-> metrics,
         timestamp |-> now]

\* the four categories _extract_metrics can produce and one it never does
CategoryNames ==
    {"success_rate", "execution_time", "repository_activity", "documentation_score",
     "code_coverage"}

\* the thresholds of one category: none given, and all three given
LevelSamples == {EmptyDict, [excellent |-> 90, good |-> 70, warning |-> 50]}

ThresholdItems == {[category |-> c, levels |-> l] : c \in CategoryNames, l \in LevelSamples}

\* the items of a dict: no key twice
ThresholdConfigs(n) ==
    { items \in SeqsUpTo(ThresholdItems, n) :
        \A i, j \in 1..Len(items) : i # j => items[i]["category"] # items[j]["category"] }

\* the results lists of a document: none, one activity check, a documentation
\* check and an activity check
ResultSamples ==
    { <<>>,
      <<[action_type |-> "check_activity_health", success |-> TRUE,
         activity_health |-> [activity_score |-> 65]]>>,
      <<[action_type |-> "check_documentation_health", success |-> TRUE,
         documentation_health |-> [documentation_score |-> 100]],
        [action_type |-> "check_activity_health", success |-> TRUE,
         activity_health |-> [activity_score |-> 90]]>> }

ResultsDocuments ==
    { [executive_summary |-> [success_rate_percent |-> rate,
                              execution_duration_seconds |-> duration],
       results |-> results] :
        rate \in {50, 70, 85, 100}, duration \in {0, 100}, results \in ResultSamples }
    \cup {EmptyDict}

ThresholdsInit ==
    /\ pc = "thresholds_start"
    /\ clock = 0
    /\ thresholds \in ThresholdConfigs(MaxCategories)
    /\ checked_results \in ResultsDocuments
    /\ threshold_result = EmptyDict
    /\ action_result = EmptyDict
    /\ exit_status = 0
    /\ report = EmptyDict
    /\ api = "none"
    /\ repos_data = <<>>
    /\ metrics_result = EmptyDict
    /\ actions_data = EmptyDict
    /\ execution_summary = EmptyDict
    /\ SelectorIdle

CheckThresholds ==
    /\ pc = "thresholds_start"
    /\ threshold_result' = check_thresholds(thresholds, checked_results, clock)
    /\ pc' = "thresholds_done"
    /\ UNCHANGED <<clock, action_result, exit_status, report, thresholds, checked_results>>
    /\ UNCHANGED pipeline_vars
    /\ UNCHANGED selector_vars

ThresholdsNext == CheckThresholds

SpecThresholds == ThresholdsInit /\ [][ThresholdsNext]_vars

---------------------------------------------------------------------------
(* Properties of the threshold checker, checked under SpecThresholds *)

\* the positions of the categories that were checked
Checked == {k \in 1..Len(thresholds) :
               HasKey(threshold_result["metrics"], thresholds[k]["category"])}

LevelAt(k) ==
    category_level(threshold_result["metrics"][thresholds[k]["category"]],
                   thresholds[k]["levels"])

\* the worst of a set of levels, 'excellent' for the empty set
Worst(levels) ==
    IF "critical" \in levels THEN "critical"
    ELSE IF "warning" \in levels THEN "warning"
    ELSE IF "good" \in levels THEN "good"
    ELSE "excellent"

\* the same items in every order
Orders(items) ==
    { [i \in 1..Len(items) |-> items[p[i]]] : p \in Permutations(1..Len(items)) }

\* C23: the overall status check_thresholds returns is the worst level among the
\* checked categories, in whatever order the categories are visited, it is
\* 'excellent' when no category is checked, and has_critical_issues is true
\* exactly when the overall status is 'critical'.
C23_OverallStatusIsTheWorstLevel ==
    pc = "thresholds_done" =>
        /\ threshold_result["overall_status"] = Worst({LevelAt(k) : k \in Checked})
        /\ Checked = {} => threshold_result["overall_status"] = "excellent"
        /\ threshold_result["has_critical_issues"] <=>
              threshold_result["overall_status"] = "critical"
        /\ \A items \in Orders(thresholds) :
              LET other == check_thresholds(items, checked_results, clock)
              IN  /\ other["overall_status"] = threshold_result["overall_status"]
                  /\ other["has_critical_issues"] = threshold_result["has_critical_issues"]

\* three checked categories, the worst one visited first and the best one last
C23_Witness ==
    /\ pc = "thresholds_done"
    /\ Checked = {1, 2, 3}
    /\ LevelAt(1) = "critical"
    /\ LevelAt(2) = "good"
    /\ LevelAt(3) = "excellent"
    /\ threshold_result["overall_status"] = "critical"
    /\ threshold_result["has_critical_issues"]

=============================================================================
